---------------------------- MODULE Spec2Model ----------------------------
(***************************************************************************)
(* Model of Face_Recongnition/backbone/MobileFaceNets_rep.py: the channel  *)
(* rounding helper, the structural re-parameterisation ("fuse") operations *)
(* of Conv2d_BN, Residual, RepVGGDW and BN_Linear, and the assembly and    *)
(* shape flow of the RepViT backbone.                                      *)
(*                                                                         *)
(* Tensors hold exact rationals <<numerator, denominator>>; a tensor of    *)
(* rank n is a sequence nested n deep, indexed from 1.                     *)
(***************************************************************************)
EXTENDS Integers, Sequences, FiniteSets, TLC

VARIABLES
    mod,    \* the module under test, with its current parameters
    orig,   \* the same module as it was constructed
    rets,   \* the distinct results of the fuse() calls made so far, oldest first
    x,      \* the input of the forward pass made since the last fuse()
    y,      \* output of the module's own forward() on x
    yf,     \* output of the operator fuse() returned, on x
    mode,   \* the branch Residual.forward took on x
    dv,     \* the arguments of a _make_divisible call and its result
    net     \* the RepViT constructed, the input of its forward pass and the
            \* shapes the pass produced

vars == <<mod, orig, rets, x, y, yf, mode, dv, net>>

\* an absent tensor (bias=None), and the value standing for the output of a
\* forward pass that raised torch's shape RuntimeError
None == <<>>
Raised == <<>>

\* no module / operator
NoModule == [kind |-> "None"]

\* what a call raised, if anything
NoError == "None"
RuntimeError == "RuntimeError"
AssertionError == "AssertionError"

----------------------------------------------------------------------------
(* Bounds of the model. *)

MaxCh == 2          \* channel counts range over 1..MaxCh
InSize == 2         \* forward inputs are InSize x InSize images
MaxStd == 2         \* sqrt(running_var + eps) ranges over 1..MaxStd
MaxFuse == 2        \* fuse() returns at most MaxFuse distinct results on one module

----------------------------------------------------------------------------
(* Exact rational arithmetic. *)

Abs(n) == IF n < 0 THEN -n ELSE n

RECURSIVE GCD(_, _)
GCD(a, b) == IF b = 0 THEN a ELSE GCD(b, a % b)

Rat(n, d) ==
    LET g == GCD(Abs(n), Abs(d))
        s == IF d < 0 THEN -1 ELSE 1
    IN  <<(s * n) \div g, (s * d) \div g>>

RInt(n) == <<n, 1>>
RZero == <<0, 1>>
ROne == <<1, 1>>
RAdd(p, q) ==
    IF p[2] = q[2] /\ p[2] = 1 THEN <<p[1] + q[1], 1>>
    ELSE LET g == GCD(p[2], q[2])
         IN  Rat(p[1] * (q[2] \div g) + q[1] * (p[2] \div g), (p[2] \div g) * q[2])
RSub(p, q) ==
    IF p[2] = q[2] /\ p[2] = 1 THEN <<p[1] - q[1], 1>>
    ELSE LET g == GCD(p[2], q[2])
         IN  Rat(p[1] * (q[2] \div g) - q[1] * (p[2] \div g), (p[2] \div g) * q[2])
RMul(p, q) ==
    IF p[1] = 0 \/ q[1] = 0 THEN <<0, 1>>
    ELSE IF p[2] = q[2] /\ p[2] = 1 THEN <<p[1] * q[1], 1>>
    ELSE Rat(p[1] * q[1], p[2] * q[2])
RDiv(p, q) == Rat(p[1] * q[2], p[2] * q[1])
RLess(p, q) == p[1] * q[2] < q[1] * p[2]

ISqrt(n) == CHOOSE r \in 0..n : r * r = n

\* t ** 0.5, exact on the squares the model draws running_var + eps from
PowHalf(q) == <<ISqrt(q[1]), ISqrt(q[2])>>

RECURSIVE RSumTo(_, _)
RSumTo(s, n) == IF n = 0 THEN RZero ELSE RAdd(RSumTo(s, n - 1), s[n])

\* sum of a sequence of rationals
RSum(s) == RSumTo(s, Len(s))

----------------------------------------------------------------------------
(* Tensors *)

Shape4(w) == <<Len(w), Len(w[1]), Len(w[1][1]), Len(w[1][1][1])>>

\* torch.ones(n0, n1, 1, 1)
Ones4(n0, n1) == [o \in 1..n0 |-> [c \in 1..n1 |-> << <<ROne>> >>]]

\* torch.nn.functional.pad(t, [l, r, tp, bt]) on the last two axes of a
\* rank-4 tensor: l/r pad the last axis, tp/bt the one before it, with zeros
Pad4(t, l, r, tp, bt) ==
    LET kh == Len(t[1][1])
        kw == Len(t[1][1][1])
    IN  [o \in 1..Len(t) |-> [c \in 1..Len(t[1]) |->
          [a \in 1..(kh + tp + bt) |-> [b \in 1..(kw + l + r) |->
              IF a - tp \in 1..kh /\ b - l \in 1..kw
              THEN t[o][c][a - tp][b - l] ELSE RZero]]]]

\* a + b on rank-4 tensors of one shape
Add4(a, b) ==
    [o \in 1..Len(a) |-> [c \in 1..Len(a[1]) |->
      [i \in 1..Len(a[1][1]) |-> [j \in 1..Len(a[1][1][1]) |->
          RAdd(a[o][c][i][j], b[o][c][i][j])]]]]

\* w * v[:, None, None, None]
ScaleOut4(w, v) ==
    [o \in 1..Len(w) |-> [c \in 1..Len(w[1]) |->
      [i \in 1..Len(w[1][1]) |-> [j \in 1..Len(w[1][1][1]) |->
          RMul(w[o][c][i][j], v[o])]]]]

\* can a tensor of shape src be broadcast to exactly the shape dst
\* (what the in-place dst += src needs)
BroadcastsTo(src, dst) ==
    /\ Len(src) = Len(dst)
    /\ \A i \in 1..Len(dst) : src[i] = dst[i] \/ src[i] = 1


----------------------------------------------------------------------------
(* torch.nn.Conv2d and torch.nn.BatchNorm2d / BatchNorm1d, as the module    *)
(* uses them: square kernels, one stride / padding / dilation for both      *)
(* axes, zero padding, batch size 1, normalisation in evaluation mode.      *)

\* torch.nn.Conv2d(a, b, ks, stride, pad, dilation, groups) holding the
\* given weight [b, a / groups, ks, ks] and bias (None, or a vector [b])
Conv2d(a, b, ks, stride, pad, dilation, groups, weight, bias) ==
    [kind |-> "Conv2d", in_channels |-> a, out_channels |-> b,
     kernel_size |-> ks, stride |-> stride, padding |-> pad,
     dilation |-> dilation, groups |-> groups,
     weight |-> weight, bias |-> bias]

\* torch.nn.BatchNorm2d(n) / BatchNorm1d(n) holding the given parameters
\* (weight, bias) and buffers (running_mean, running_var)
BatchNorm(weight, bias, running_mean, running_var, eps) ==
    [kind |-> "BatchNorm", weight |-> weight, bias |-> bias,
     running_mean |-> running_mean, running_var |-> running_var, eps |-> eps]

\* spatial size of a convolution's output on an axis of n points
ConvOutSize(n, ks, stride, pad, dilation) ==
    (n + 2 * pad - dilation * (ks - 1) - 1) \div stride + 1

\* the input at channel c, row i, column j of the zero-padded input
AtPadded(t, c, i, j) ==
    IF i \in 1..Len(t[c]) /\ j \in 1..Len(t[c][1]) THEN t[c][i][j] ELSE RZero

\* Conv2d.forward on one sample t[channel][row][column]
Conv2dForward(m, t) ==
    LET h == Len(t[1])
        w == Len(t[1][1])
        k == m.kernel_size
        cg == m.in_channels \div m.groups
        og == m.out_channels \div m.groups
        ho == ConvOutSize(h, k, m.stride, m.padding, m.dilation)
        wo == ConvOutSize(w, k, m.stride, m.padding, m.dilation)
        Tap(o, i, j, n) ==
            LET c == (n - 1) \div (k * k) + 1
                a == ((n - 1) % (k * k)) \div k + 1
                b == ((n - 1) % k) + 1
            IN  RMul(m.weight[o][c][a][b],
                     AtPadded(t, ((o - 1) \div og) * cg + c,
                              (i - 1) * m.stride + (a - 1) * m.dilation - m.padding + 1,
                              (j - 1) * m.stride + (b - 1) * m.dilation - m.padding + 1))
        Bias(o) == IF m.bias = None THEN RZero ELSE m.bias[o]
    IN  IF Len(t) # m.in_channels
           \/ h + 2 * m.padding < m.dilation * (k - 1) + 1
           \/ w + 2 * m.padding < m.dilation * (k - 1) + 1
        THEN Raised
        ELSE [o \in 1..m.out_channels |-> [i \in 1..ho |-> [j \in 1..wo |->
                RAdd(RSum([n \in 1..(cg * k * k) |-> Tap(o, i, j, n)]), Bias(o))]]]

\* BatchNorm2d.forward in evaluation mode on one sample t[channel][row][column]
BatchNorm2dForward(bn, t) ==
    IF t = Raised \/ Len(t) # Len(bn.weight) THEN Raised
    ELSE [c \in 1..Len(t) |-> [i \in 1..Len(t[c]) |-> [j \in 1..Len(t[c][i]) |->
            RAdd(RMul(RDiv(RSub(t[c][i][j], bn.running_mean[c]),
                           PowHalf(RAdd(bn.running_var[c], bn.eps))),
                      bn.weight[c]),
                 bn.bias[c])]]]

----------------------------------------------------------------------------
(* class Conv2d_BN *)

\* Conv2d_BN.__init__ : Sequential(c = Conv2d(..., bias=False), bn = BatchNorm2d(b))
Conv2d_BN(c, bn) == [kind |-> "Conv2d_BN", c |-> c, bn |-> bn]

\* Conv2d_BN.forward (Sequential): bn(c(x))
Conv2d_BN_forward(self, t) == BatchNorm2dForward(self.bn, Conv2dForward(self.c, t))

\* bn.weight / (bn.running_var + bn.eps) ** 0.5, per channel
BNScale(bn) ==
    [c \in 1..Len(bn.weight) |->
        RDiv(bn.weight[c], PowHalf(RAdd(bn.running_var[c], bn.eps)))]

\* BNShift with the factor bn.weight of the mean term forgotten
BNShift_NoWeight(bn) ==
    [c \in 1..Len(bn.weight) |->
        RSub(bn.bias[c],
             RDiv(bn.running_mean[c], PowHalf(RAdd(bn.running_var[c], bn.eps))))]

\* bn.bias - bn.running_mean * bn.weight / (bn.running_var + bn.eps) ** 0.5
BNShift(bn) ==
    [c \in 1..Len(bn.weight) |->
        RSub(bn.bias[c],
             RDiv(RMul(bn.running_mean[c], bn.weight[c]),
                  PowHalf(RAdd(bn.running_var[c], bn.eps))))]

\* Conv2d_BN.fuse : a new Conv2d holding the folded weight and bias
Conv2d_BN_fuse(self) ==
    LET c == self.c
        bn == self.bn
        w == ScaleOut4(c.weight, BNScale(bn))
        b == BNShift(bn)
        sh == Shape4(w)
    IN  Conv2d(sh[2] * c.groups, sh[1], sh[3], c.stride, c.padding,
               c.dilation, c.groups, w, b)

----------------------------------------------------------------------------
(* class Residual *)

\* shape of a sample t[channel][row][column]
Shape3(t) == <<Len(t), Len(t[1]), Len(t[1][1])>>

\* a + b on samples, with torch's broadcasting of axes of size 1
AddBroadcast3(a, b) ==
    IF a = Raised \/ b = Raised THEN Raised
    ELSE LET sa == Shape3(a)
             sb == Shape3(b)
             Dim(d) == IF sa[d] = 1 THEN sb[d] ELSE sa[d]
             Ix(sh, d, i) == IF sh[d] = 1 THEN 1 ELSE i
         IN  IF \E d \in 1..3 : sa[d] # sb[d] /\ sa[d] # 1 /\ sb[d] # 1
             THEN Raised
             ELSE [c \in 1..Dim(1) |-> [i \in 1..Dim(2) |-> [j \in 1..Dim(3) |->
                    RAdd(a[Ix(sa, 1, c)][Ix(sa, 2, i)][Ix(sa, 3, j)],
                         b[Ix(sb, 1, c)][Ix(sb, 2, i)][Ix(sb, 3, j)])]]]

\* t * s for a sample t and a scalar s
Scale3(t, s) ==
    IF t = Raised THEN Raised
    ELSE [c \in 1..Len(t) |-> [i \in 1..Len(t[c]) |-> [j \in 1..Len(t[c][i]) |->
            RMul(t[c][i][j], s)]]]

\* Residual.__init__
Residual(m, drop) == [kind |-> "Residual", m |-> m, drop |-> drop]

\* forward of the modules a Residual wraps in this model: a Conv2d_BN, a
\* plain Conv2d, or a Sequential holding one Conv2d_BN or one Conv2d
WrappedForward(m, t) ==
    CASE m.kind = "Conv2d_BN" -> Conv2d_BN_forward(m, t)
      [] m.kind = "Conv2d" -> Conv2dForward(m, t)
      [] m.kind = "Sequential" ->
            IF m.layers[1].kind = "Conv2d_BN"
            THEN Conv2d_BN_forward(m.layers[1], t)
            ELSE Conv2dForward(m.layers[1], t)

\* Residual.forward; training is self.training (nn.Module's flag, set by
\* train() / eval()), keep is the sample's entry of
\* torch.rand(...).ge_(self.drop), 0 or 1
Residual_forward(self, training, t, keep) ==
    IF training /\ RLess(RZero, self.drop)
    THEN AddBroadcast3(t, Scale3(WrappedForward(self.m, t),
                                 RDiv(RInt(keep), RSub(ROne, self.drop))))
    ELSE AddBroadcast3(t, WrappedForward(self.m, t))

\* AddIdentityInPlace with the ones padded to the right and below only, which
\* leaves them at the kernel's corner
AddIdentityInPlace_Corner(m) ==
    LET sh == Shape4(m.weight)
        identity == Pad4(Ones4(sh[1], sh[2]), 0, 2, 0, 2)
    IN  IF BroadcastsTo(Shape4(identity), sh)
        THEN [m EXCEPT !.weight = Add4(m.weight, identity)]
        ELSE [kind |-> RuntimeError]

\* m.weight += identity, on the convolution m: the new m, or the error
\* torch raises when identity does not broadcast to m.weight's shape
AddIdentityInPlace(m) ==
    LET sh == Shape4(m.weight)
        identity == Pad4(Ones4(sh[1], sh[2]), 1, 1, 1, 1)
    IN  IF BroadcastsTo(Shape4(identity), sh)
        THEN [m EXCEPT !.weight = Add4(m.weight, identity)]
        ELSE [kind |-> RuntimeError]

\* Residual.fuse : what it returns (ret; ref tells which object that is: a
\* "new" operator, the wrapped module "m" itself, or "self"), what it raises
\* (error), and the module after the call (self)
Residual_fuse(self) ==
    IF self.m.kind = "Conv2d_BN"
    THEN LET m == Conv2d_BN_fuse(self.m)
             r == AddIdentityInPlace(m)
         IN  IF m.groups # m.in_channels
             THEN [error |-> AssertionError, ref |-> "none", ret |-> NoModule, self |-> self]
             ELSE IF r.kind = RuntimeError
             THEN [error |-> RuntimeError, ref |-> "none", ret |-> NoModule, self |-> self]
             ELSE [error |-> NoError, ref |-> "new", ret |-> r, self |-> self]
    ELSE IF self.m.kind = "Conv2d"
    THEN LET m == self.m
             r == AddIdentityInPlace(m)
         IN  IF m.groups = m.in_channels
             THEN [error |-> AssertionError, ref |-> "none", ret |-> NoModule, self |-> self]
             ELSE IF r.kind = RuntimeError
             THEN [error |-> RuntimeError, ref |-> "none", ret |-> NoModule, self |-> self]
             ELSE [error |-> NoError, ref |-> "m", ret |-> r,
                   self |-> [self EXCEPT !.m = r]]
    ELSE [error |-> NoError, ref |-> "self", ret |-> self, self |-> self]

----------------------------------------------------------------------------
(* class RepVGGDW *)

\* RepVGGDW.__init__ : conv = Conv2d_BN(ed, ed, 3, 1, 1, groups=ed),
\* conv1 = Conv2d(ed, ed, 1, 1, 0, groups=ed), bn = BatchNorm2d(ed)
RepVGGDW(ed, conv, conv1, bn) ==
    [kind |-> "RepVGGDW", conv |-> conv, conv1 |-> conv1, dim |-> ed, bn |-> bn]

\* RepVGGDW.forward : bn((conv(x) + conv1(x)) + x)
RepVGGDW_forward(self, t) ==
    BatchNorm2dForward(self.bn,
        AddBroadcast3(AddBroadcast3(Conv2d_BN_forward(self.conv, t),
                                    Conv2dForward(self.conv1, t)),
                      t))

\* RepVGGDW.fuse with the trailing normalisation folded into the 3x3 branch
\* before the 1x1 kernel and the identity are added
RepVGGDW_fuse_NormFirst(self) ==
    LET conv == Conv2d_BN_fuse(self.conv)
        conv1 == self.conv1
        bn == self.bn
        conv1_w == Pad4(conv1.weight, 1, 1, 1, 1)
        identity == Pad4(Ones4(Len(conv1_w), Len(conv1_w[1])), 1, 1, 1, 1)
        w == Add4(Add4(ScaleOut4(conv.weight, BNScale(bn)), conv1_w), identity)
        b == [c \in 1..Len(conv.bias) |->
                RAdd(RAdd(bn.bias[c],
                          RDiv(RMul(RSub(conv.bias[c], bn.running_mean[c]), bn.weight[c]),
                               PowHalf(RAdd(bn.running_var[c], bn.eps)))),
                     conv1.bias[c])]
    IN  [conv EXCEPT !.weight = w, !.bias = b]

\* RepVGGDW.fuse
RepVGGDW_fuse(self) ==
    LET conv == Conv2d_BN_fuse(self.conv)
        conv1 == self.conv1
        conv_w == conv.weight
        conv_b == conv.bias
        conv1_w == Pad4(conv1.weight, 1, 1, 1, 1)
        conv1_b == conv1.bias
        identity == Pad4(Ones4(Len(conv1_w), Len(conv1_w[1])), 1, 1, 1, 1)
        final_conv_w == Add4(Add4(conv_w, conv1_w), identity)
        final_conv_b == [c \in 1..Len(conv_b) |-> RAdd(conv_b[c], conv1_b[c])]
        bn == self.bn
        w == ScaleOut4(final_conv_w, BNScale(bn))
        b == [c \in 1..Len(final_conv_b) |->
                RAdd(bn.bias[c],
                     RDiv(RMul(RSub(final_conv_b[c], bn.running_mean[c]), bn.weight[c]),
                          PowHalf(RAdd(bn.running_var[c], bn.eps))))]
    IN  [conv EXCEPT !.weight = w, !.bias = b]

----------------------------------------------------------------------------
(* class BN_Linear *)

\* torch.nn.Linear(a, b) holding weight [b, a] and bias (None, or a vector [b])
Linear(a, b, weight, bias) ==
    [kind |-> "Linear", in_features |-> a, out_features |-> b,
     weight |-> weight, bias |-> bias]

\* Linear.forward on one sample, a vector [in_features]
LinearForward(l, v) ==
    IF v = Raised \/ Len(v) # l.in_features THEN Raised
    ELSE [o \in 1..l.out_features |->
            RAdd(RSum([i \in 1..l.in_features |-> RMul(l.weight[o][i], v[i])]),
                 IF l.bias = None THEN RZero ELSE l.bias[o])]

\* BatchNorm1d.forward in evaluation mode on one sample, a vector
BatchNorm1dForward(bn, v) ==
    IF Len(v) # Len(bn.weight) THEN Raised
    ELSE [c \in 1..Len(v) |->
            RAdd(RMul(RDiv(RSub(v[c], bn.running_mean[c]),
                           PowHalf(RAdd(bn.running_var[c], bn.eps))),
                      bn.weight[c]),
                 bn.bias[c])]

\* BN_Linear.__init__ : Sequential(bn = BatchNorm1d(a), l = Linear(a, b, bias))
BN_Linear(bn, l) == [kind |-> "BN_Linear", bn |-> bn, l |-> l]

\* BN_Linear.forward (Sequential): l(bn(x))
BN_Linear_forward(self, v) == LinearForward(self.l, BatchNorm1dForward(self.bn, v))

\* m.T for a matrix m[row][column]
Transpose(m) == [j \in 1..Len(m[1]) |-> [i \in 1..Len(m) |-> m[i][j]]]

\* v @ m for a vector v and a matrix m[row][column]
VecMat(v, m) ==
    [j \in 1..Len(m[1]) |-> RSum([i \in 1..Len(v) |-> RMul(v[i], m[i][j])])]

\* (m @ v[:, None]).view(-1) for a matrix m[row][column] and a vector v
MatVec(m, v) ==
    [i \in 1..Len(m) |-> RSum([j \in 1..Len(v) |-> RMul(m[i][j], v[j])])]

\* BN_Linear.fuse with the linear layer's own bias left out of the fused bias
BN_Linear_fuse_NoLinearBias(self) ==
    LET bn == self.bn
        l == self.l
        s == BNScale(bn)
        b0 == BNShift(bn)
        w == [o \in 1..Len(l.weight) |-> [i \in 1..Len(l.weight[o]) |->
                RMul(l.weight[o][i], s[i])]]
        b == IF l.bias = None
             THEN VecMat(b0, Transpose(l.weight))
             ELSE MatVec(l.weight, b0)
    IN  Linear(Len(w[1]), Len(w), w, b)

\* BN_Linear.fuse : a new Linear holding the folded weight and bias
BN_Linear_fuse(self) ==
    LET bn == self.bn
        l == self.l
        s == BNScale(bn)
        b0 == BNShift(bn)
        w == [o \in 1..Len(l.weight) |-> [i \in 1..Len(l.weight[o]) |->
                RMul(l.weight[o][i], s[i])]]
        b == IF l.bias = None
             THEN VecMat(b0, Transpose(l.weight))
             ELSE LET p == MatVec(l.weight, b0)
                  IN  [o \in 1..Len(p) |-> RAdd(p[o], l.bias[o])]
    IN  Linear(Len(w[1]), Len(w), w, b)

----------------------------------------------------------------------------
(* The parameter values and inputs the model draws from. *)

KernelSizes == {1, 3}
Strides == {1, 2}
Paddings == {0, 1}
Dilations == {1, 2}
WeightIds == {0, 1}

\* a weight tensor [n0, n1, k, k]: all zero (id 0), or taps that differ
\* along every axis, in -2..2
Weight4(id, n0, n1, k) ==
    [o \in 1..n0 |-> [c \in 1..n1 |-> [a \in 1..k |-> [b \in 1..k |->
        IF id = 0 THEN RZero
        ELSE RInt((((((o - 1) * n1 + (c - 1)) * k + (a - 1)) * k + b) % 5) - 2)]]]]

\* a bias vector [n]: all zero (id 0), or 1, 2, ...
Bias1(id, n) == [o \in 1..n |-> IF id = 0 THEN RZero ELSE RInt(o)]

\* one channel's normalisation parameters <<weight, bias, running_mean,
\* sqrt(running_var + eps)>>: the identity, a zero scale (bn_weight_init=0),
\* and two with every parameter at work
ChanStats == << <<1, 0, 0, 1>>, <<2, 1, 3, MaxStd>>, <<0, 1, 1, 1>>, <<-1, 2, 1, MaxStd>> >>

\* eps of torch.nn.BatchNorm2d(b) / BatchNorm1d(a), the default 1e-05
BNEps == Rat(1, 100000)

\* the BatchNorm over Len(st) channels whose channel c has the parameters
\* st[c]: running_var is std * std - eps, a value of the buffer for which
\* (running_var + eps) ** 0.5 is the rational std
BatchNormOf(st) ==
    BatchNorm([c \in 1..Len(st) |-> RInt(st[c][1])],
              [c \in 1..Len(st) |-> RInt(st[c][2])],
              [c \in 1..Len(st) |-> RInt(st[c][3])],
              [c \in 1..Len(st) |-> RSub(RInt(st[c][4] * st[c][4]), BNEps)],
              BNEps)

\* normalisations over n channels: the identity on every channel, and those
\* whose consecutive channels have consecutive entries of ChanStats
BatchNorms(n) ==
    {BatchNormOf([c \in 1..n |-> ChanStats[1]])} \cup
    {BatchNormOf([c \in 1..n |-> ChanStats[((first + c - 1) % Len(ChanStats)) + 1]]) :
        first \in 0..(Len(ChanStats) - 1)}

\* the channel configurations <<in_channels, out_channels, groups>> torch accepts
ChannelCfgs ==
    {cc \in (1..MaxCh) \X (1..MaxCh) \X (1..MaxCh) :
        cc[1] % cc[3] = 0 /\ cc[2] % cc[3] = 0}

\* the samples a forward pass is run on: the zero image and the unit
\* impulses, which together decide the equality of two affine maps
Image(c, p) ==
    [ch \in 1..c |-> [i \in 1..InSize |-> [j \in 1..InSize |->
        IF ((ch - 1) * InSize + (i - 1)) * InSize + j = p THEN ROne ELSE RZero]]]

Images(c) == {Image(c, p) : p \in 0..(c * InSize * InSize)}

----------------------------------------------------------------------------
(* The calls made on a module under test: its construction, fuse() and     *)
(* forward passes of the module and of the operator fuse() returned.       *)

InitIdle ==
    /\ mod = NoModule
    /\ orig = NoModule
    /\ rets = <<>>
    /\ x = None
    /\ y = None
    /\ yf = None
    /\ mode = "none"
    /\ dv = <<>>
    /\ net = <<>>

\* the operator object the r-th recorded fuse() result is, as it is now
Live(r) ==
    IF rets[r].ref = "m" THEN mod.m
    ELSE IF rets[r].ref = "self" THEN mod
    ELSE rets[r].ret

\* the last fuse() call returned an operator
Fused == rets # <<>> /\ rets[Len(rets)].error = NoError

\* rets after a fuse() call with result r
Returned(r) == IF rets # <<>> /\ rets[Len(rets)] = r THEN rets ELSE Append(rets, r)

\* the module is constructed, with the parameters training left it with
New(m) ==
    /\ mod' = m
    /\ orig' = m
    /\ UNCHANGED <<rets, x, y, yf, mode, dv, net>>

\* fuse() was called: r is its result, m the module after the call
AfterFuse(r, m) ==
    /\ Len(Returned(r)) <= MaxFuse
    /\ rets' = Returned(r)
    /\ mod' = m
    /\ x' = None /\ y' = None /\ yf' = None /\ mode' = "none"
    /\ UNCHANGED <<orig, dv, net>>

\* a forward pass on t gave out, the operator fuse() returned gave fout
AfterForward(t, out, fout, br) ==
    /\ x' = t
    /\ y' = out
    /\ yf' = fout
    /\ mode' = br
    /\ UNCHANGED <<mod, orig, rets, dv, net>>

\* Conv2d_BN(a, b, ks, stride, pad, dilation, groups) for every drawn setting
Conv2d_BNs ==
    UNION {{Conv2d_BN(Conv2d(cc[1], cc[2], ks, s, p, d, cc[3],
                             Weight4(id, cc[2], cc[1] \div cc[3], ks), None),
                      bn) : bn \in BatchNorms(cc[2])} :
           cc \in ChannelCfgs, ks \in KernelSizes, s \in Strides, p \in Paddings,
           d \in Dilations, id \in WeightIds}

NewConv2d_BN == mod = NoModule /\ \E m \in Conv2d_BNs : New(m)

\* m = self.fuse()
CallConv2d_BN_fuse ==
    /\ mod.kind = "Conv2d_BN"
    /\ AfterFuse([error |-> NoError, ref |-> "new", ret |-> Conv2d_BN_fuse(mod)], mod)

\* self(t), and m(t) for the operator the last fuse() returned
CallConv2d_BN_forward ==
    /\ mod.kind = "Conv2d_BN"
    /\ Fused
    /\ x = None
    /\ \E t \in Images(mod.c.in_channels) :
        AfterForward(t, Conv2d_BN_forward(mod, t),
                     Conv2dForward(Live(Len(rets)), t), "plain")

NextConvBN == NewConv2d_BN \/ CallConv2d_BN_fuse \/ CallConv2d_BN_forward

SpecConvBN == InitIdle /\ [][NextConvBN]_vars

----------------------------------------------------------------------------
(* Residual: construction, fuse(), forward *)

Drops == {RZero, Rat(1, 2)}
BiasIds == {0, 1}

\* plain Conv2d(a, b, ks, stride, pad, dilation, groups, bias) for every
\* drawn setting, without a bias and with one
Conv2ds ==
    UNION {{Conv2d(cc[1], cc[2], ks, s, p, d, cc[3],
                   Weight4(id, cc[2], cc[1] \div cc[3], ks), None),
            Conv2d(cc[1], cc[2], ks, s, p, d, cc[3],
                   Weight4(id, cc[2], cc[1] \div cc[3], ks), Bias1(id, cc[2]))} :
           cc \in ChannelCfgs, ks \in KernelSizes, s \in Strides, p \in Paddings,
           d \in Dilations, id \in WeightIds}

\* nn.Sequential(Conv2d_BN(a, a, 1, 1, 0)) and nn.Sequential(Conv2d(a, a, 1)):
\* wrapped modules that are neither a Conv2d_BN nor a Conv2d, as
\* RepViTBlock's channel mixers are
Sequentials ==
    {[kind |-> "Sequential", layers |-> <<m>>] :
        m \in {n \in Conv2d_BNs :
                  /\ n.c.kernel_size = 1 /\ n.c.stride = 1 /\ n.c.padding = 0
                  /\ n.c.dilation = 1 /\ n.c.groups = 1
                  /\ n.c.in_channels = n.c.out_channels}
           \cup {n \in Conv2ds :
                  /\ n.kernel_size = 1 /\ n.stride = 1 /\ n.padding = 0
                  /\ n.dilation = 1 /\ n.groups = 1
                  /\ n.in_channels = n.out_channels}}

NewResidual ==
    /\ mod = NoModule
    /\ \E m \in Conv2d_BNs \cup Conv2ds \cup Sequentials, drop \in Drops :
        New(Residual(m, drop))

\* op = self.fuse()
CallResidual_fuse ==
    /\ mod.kind = "Residual"
    /\ LET r == Residual_fuse(mod)
       IN  AfterFuse([error |-> r.error, ref |-> r.ref, ret |-> r.ret], r.self)

\* forward of what Residual.fuse() returned: a Conv2d, or the wrapper itself
FusedForward(op, training, t, keep) ==
    IF op.kind = "Residual" THEN Residual_forward(op, training, t, keep)
    ELSE Conv2dForward(op, t)

\* the number of input channels of a wrapped module
InChannels(m) ==
    CASE m.kind = "Conv2d" -> m.in_channels
      [] m.kind = "Conv2d_BN" -> m.c.in_channels
      [] m.kind = "Sequential" ->
            IF m.layers[1].kind = "Conv2d_BN" THEN m.layers[1].c.in_channels
            ELSE m.layers[1].in_channels

\* the wrapped module holds a BatchNorm2d
HasBatchNorm(m) ==
    \/ m.kind = "Conv2d_BN"
    \/ m.kind = "Sequential" /\ m.layers[1].kind = "Conv2d_BN"

\* the values self.training can have at a forward pass of the model: a
\* module holding a BatchNorm2d is run in evaluation mode only (after
\* eval()), since in training mode the BatchNorm2d normalises with the
\* batch's statistics and updates its running ones; a module without one is
\* run after eval() and after train()
TrainingModes(self) == IF HasBatchNorm(self.m) THEN {FALSE} ELSE BOOLEAN

\* the values an entry of torch.rand(...).ge_(self.drop) can have at a
\* forward call of op: 0 or 1 where the stochastic branch runs
Keeps(op, training) ==
    IF op.kind = "Residual" /\ training /\ RLess(RZero, op.drop)
    THEN {0, 1} ELSE {1}

\* the branch Residual.forward takes: the plain sum, or the stochastic one
\* with the residual dropped or kept
Branch(self, training, keep) ==
    IF training /\ RLess(RZero, self.drop)
    THEN IF keep = 1 THEN "kept" ELSE "dropped"
    ELSE "plain"

\* y = self(t) and yf = op(t) for the operator op the last fuse() returned:
\* two forward calls, each with a torch.rand draw of its own
CallResidual_forward ==
    /\ mod.kind = "Residual"
    /\ Fused
    /\ x = None
    /\ \E t \in Images(InChannels(mod.m)), training \in TrainingModes(mod) :
       \E keep \in Keeps(mod, training),
          keepf \in Keeps(Live(Len(rets)), training) :
        AfterForward(t, Residual_forward(mod, training, t, keep),
                     FusedForward(Live(Len(rets)), training, t, keepf),
                     Branch(mod, training, keep))

NextResidual == NewResidual \/ CallResidual_fuse \/ CallResidual_forward

SpecResidual == InitIdle /\ [][NextResidual]_vars

----------------------------------------------------------------------------
(* RepVGGDW: construction, fuse(), forward *)

\* RepVGGDW(ed) for every drawn setting of its three parameter groups
RepVGGDWs ==
    UNION {{RepVGGDW(ed,
                     Conv2d_BN(Conv2d(ed, ed, 3, 1, 1, 1, ed, Weight4(ida, ed, 1, 3), None),
                               bna),
                     Conv2d(ed, ed, 1, 1, 0, 1, ed, Weight4(idb, ed, 1, 1), Bias1(idc, ed)),
                     bn) : bna \in BatchNorms(ed), bn \in BatchNorms(ed)} :
           ed \in 1..MaxCh, ida \in WeightIds, idb \in WeightIds, idc \in BiasIds}

NewRepVGGDW == mod = NoModule /\ \E m \in RepVGGDWs : New(m)

\* conv = self.fuse()
CallRepVGGDW_fuse ==
    /\ mod.kind = "RepVGGDW"
    /\ AfterFuse([error |-> NoError, ref |-> "new", ret |-> RepVGGDW_fuse(mod)], mod)

\* self(t), and conv(t) for the operator the last fuse() returned
CallRepVGGDW_forward ==
    /\ mod.kind = "RepVGGDW"
    /\ Fused
    /\ x = None
    /\ \E t \in Images(mod.dim) :
        AfterForward(t, RepVGGDW_forward(mod, t),
                     Conv2dForward(Live(Len(rets)), t), "plain")

NextRepVGGDW == NewRepVGGDW \/ CallRepVGGDW_fuse \/ CallRepVGGDW_forward

SpecRepVGGDW == InitIdle /\ [][NextRepVGGDW]_vars

----------------------------------------------------------------------------
(* BN_Linear: construction, fuse(), forward *)

\* a weight matrix [b, a]: all zero (id 0), or entries that differ along
\* both axes, in -2..2
Weight2(id, b, a) ==
    [o \in 1..b |-> [i \in 1..a |->
        IF id = 0 THEN RZero ELSE RInt((((o - 1) * a + i) % 5) - 2)]]

\* BN_Linear(a, b, bias) for every drawn setting: bias=False, and bias=True
\* with the bias vector at its initial zero or trained
BN_Linears ==
    UNION {{BN_Linear(bn, Linear(a, b, Weight2(id, b, a), bias)) :
                bn \in BatchNorms(a), bias \in {None} \cup {Bias1(idc, b) : idc \in BiasIds}} :
           a \in 1..MaxCh, b \in 1..MaxCh, id \in WeightIds}

\* the samples of a dense layer: the zero vector and the unit vectors
Vectors(a) == {[i \in 1..a |-> IF i = p THEN ROne ELSE RZero] : p \in 0..a}

NewBN_Linear == mod = NoModule /\ \E m \in BN_Linears : New(m)

\* m = self.fuse()
CallBN_Linear_fuse ==
    /\ mod.kind = "BN_Linear"
    /\ AfterFuse([error |-> NoError, ref |-> "new", ret |-> BN_Linear_fuse(mod)], mod)

\* self(v), and m(v) for the operator the last fuse() returned
CallBN_Linear_forward ==
    /\ mod.kind = "BN_Linear"
    /\ Fused
    /\ x = None
    /\ \E v \in Vectors(mod.l.in_features) :
        AfterForward(v, BN_Linear_forward(mod, v),
                     LinearForward(Live(Len(rets)), v), "plain")

NextBNLinear == NewBN_Linear \/ CallBN_Linear_fuse \/ CallBN_Linear_forward

SpecBNLinear == InitIdle /\ [][NextBNLinear]_vars

\* s = gamma / sqrt(sigma^2 + eps) of channel c, as the claims define it
ScaleOf(bn, c) == RDiv(bn.weight[c], PowHalf(RAdd(bn.running_var[c], bn.eps)))

\* some entry of the sample t is not zero
NonZero3(t) ==
    \E c \in 1..Len(t) : \E i \in 1..Len(t[c]) : \E j \in 1..Len(t[c][i]) :
        t[c][i][j] # RZero

\* C1: the operator Conv2d_BN.fuse() returns has weight W * s per output
\* channel and bias beta - mu * s, where s = gamma / sqrt(sigma^2 + eps); it
\* keeps the stride, padding, dilation and groups of the convolution; and on
\* every input its output is that of the convolution followed by the
\* normalisation.
C1_ConvBNFuse ==
    (mod.kind = "Conv2d_BN" /\ Fused) =>
        LET m == rets[Len(rets)].ret
            c == mod.c
            bn == mod.bn
        IN  /\ rets[Len(rets)].ref = "new"
            /\ m.kind = "Conv2d"
            /\ Shape4(m.weight) = Shape4(c.weight)
            /\ \A o \in 1..c.out_channels :
                /\ \A ci \in 1..Len(c.weight[o]) :
                     \A a \in 1..c.kernel_size : \A b \in 1..c.kernel_size :
                        m.weight[o][ci][a][b] = RMul(c.weight[o][ci][a][b], ScaleOf(bn, o))
                /\ m.bias[o] = RSub(bn.bias[o], RMul(bn.running_mean[o], ScaleOf(bn, o)))
            /\ m.in_channels = c.in_channels /\ m.out_channels = c.out_channels
            /\ m.kernel_size = c.kernel_size
            /\ m.stride = c.stride /\ m.padding = c.padding
            /\ m.dilation = c.dilation /\ m.groups = c.groups
            /\ (x # None => yf = y)

\* a fused Conv2d_BN with a scale other than 1, a mean and a shift at work,
\* run on an impulse the convolution responds to
C1_Witness ==
    /\ mod.kind = "Conv2d_BN" /\ Fused
    /\ x # None /\ NonZero3(x)
    /\ y # Raised /\ yf = y
    /\ mod.c.groups = 2 /\ mod.c.kernel_size = 3 /\ mod.c.stride = 2
    /\ ScaleOf(mod.bn, 1) = Rat(-1, 2) /\ ScaleOf(mod.bn, 2) = ROne
    /\ mod.bn.running_mean[1] = ROne /\ mod.bn.bias[1] = RInt(2)
    /\ \E i \in 1..Len(y[1]) : \E j \in 1..Len(y[1][i]) :
          y[1][i][j] # rets[Len(rets)].ret.bias[1]

----------------------------------------------------------------------------
(* Residual.fuse() *)

\* the kernel w plus 1 at tap (ca, cb) of every channel pair
PlusTap(w, ca, cb) ==
    [o \in 1..Len(w) |-> [c \in 1..Len(w[o]) |->
      [a \in 1..Len(w[o][c]) |-> [b \in 1..Len(w[o][c][a]) |->
          RAdd(w[o][c][a][b], IF a = ca /\ b = cb THEN ROne ELSE RZero)]]]]

\* every tap of the kernel w is zero
ZeroKernel(w) ==
    \A o \in 1..Len(w) : \A c \in 1..Len(w[o]) :
        \A a \in 1..Len(w[o][c]) : \A b \in 1..Len(w[o][c][a]) : w[o][c][a][b] = RZero

\* the kernel w has 1 at the centre tap of a 3x3 kernel and 0 elsewhere
IdentityKernel3(w) ==
    \A o \in 1..Len(w) : \A c \in 1..Len(w[o]) :
        /\ Len(w[o][c]) = 3
        /\ \A a \in 1..3 : \A b \in 1..3 :
            w[o][c][a][b] = IF a = 2 /\ b = 2 THEN ROne ELSE RZero

\* the Residual under test wraps a depthwise 3x3 Conv2d_BN with padding 1
DepthwiseCase ==
    /\ mod.kind = "Residual"
    /\ orig.m.kind = "Conv2d_BN"
    /\ orig.m.c.groups = orig.m.c.in_channels
    /\ orig.m.c.kernel_size = 3
    /\ orig.m.c.padding = 1

\* what C4 says of the kernel and the bias Residual.fuse() returns
DepthwiseKernel ==
    LET r == rets[Len(rets)]
        f == Conv2d_BN_fuse(orig.m)
    IN  /\ r.error = NoError
        /\ r.ref = "new"
        /\ r.ret.weight = PlusTap(f.weight, 2, 2)
        /\ r.ret.bias = f.bias
        /\ (ZeroKernel(orig.m.c.weight) /\ \A o \in 1..Len(f.bias) : f.bias[o] = RZero)
              => IdentityKernel3(r.ret.weight)

\* C4 as written: for a wrapped depthwise 3x3 Conv2d_BN with padding 1, the
\* kernel Residual.fuse() returns is the conv+norm fused kernel plus 1 at
\* the centre tap, its bias the conv+norm fused bias, and its output equals
\* input + wrapped(input) on every input.
C4_AsWritten ==
    (DepthwiseCase /\ rets # <<>>) =>
        /\ DepthwiseKernel
        /\ (x # None /\ mode = "plain") => yf = y

\* C4, amended: the same, the equality of the outputs for a wrapped module
\* of stride 1, dilation 1 and as many output as input channels, which is
\* when wrapped(input) has the shape of the input.
C4_ResidualFuseDepthwise ==
    (DepthwiseCase /\ rets # <<>>) =>
        /\ DepthwiseKernel
        /\ (/\ x # None /\ mode = "plain"
            /\ orig.m.c.stride = 1 /\ orig.m.c.dilation = 1
            /\ orig.m.c.out_channels = orig.m.c.in_channels)
              => (y # Raised /\ yf = y)

\* a fused Residual over a two-channel depthwise 3x3 Conv2d_BN of stride 1
\* with non-zero taps, run in evaluation mode on an impulse
C4_Witness ==
    /\ DepthwiseCase /\ Fused
    /\ orig.m.c.groups = 2 /\ orig.m.c.out_channels = 2
    /\ orig.m.c.stride = 1 /\ orig.m.c.dilation = 1
    /\ ~ZeroKernel(orig.m.c.weight)
    /\ ScaleOf(orig.m.bn, 1) = Rat(-1, 2)
    /\ x # None /\ NonZero3(x) /\ mode = "plain"
    /\ y # Raised /\ yf = y
    /\ y # x

\* C5: for a wrapped plain 3x3 Conv2d with groups # in_channels and
\* in_channels = out_channels (padding 1, stride 1, dilation 1), the output
\* of the operator Residual.fuse() returns equals input + wrapped(input) on
\* every input.
C5_ResidualFusePlainConv ==
    (/\ mod.kind = "Residual" /\ orig.m.kind = "Conv2d"
     /\ orig.m.groups # orig.m.in_channels
     /\ orig.m.in_channels = orig.m.out_channels
     /\ orig.m.kernel_size = 3 /\ orig.m.padding = 1
     /\ orig.m.stride = 1 /\ orig.m.dilation = 1
     /\ Len(rets) = 1 /\ x # None /\ mode = "plain")
        => yf = AddBroadcast3(x, WrappedForward(orig.m, x))

\* C6: a fuse() call leaves the parameters of the module and its sub-modules
\* as they were, what it returns is no object of the module tree (the
\* wrapper returned as it is when there is nothing to fuse aside), and every
\* call returns the same weight and bias as the first.
C6_FuseLeavesModule ==
    rets # <<>> =>
        /\ mod = orig
        /\ \A r \in 1..Len(rets) : rets[r].ref # "m"
        /\ Len(rets) = 1

\* C9: for a wrapped conv-like module that passes fuse()'s assertion and has
\* a k x k kernel, k odd, the addition of the padded ones raises no shape
\* error and changes the centre tap only.
C9_IdentityAnyKernelSize ==
    (/\ mod.kind = "Residual" /\ rets # <<>>
     /\ \/ orig.m.kind = "Conv2d_BN" /\ orig.m.c.groups = orig.m.c.in_channels
        \/ orig.m.kind = "Conv2d" /\ orig.m.groups # orig.m.in_channels)
        => LET r == rets[1]
               before == IF orig.m.kind = "Conv2d_BN"
                         THEN Conv2d_BN_fuse(orig.m).weight ELSE orig.m.weight
               k == Len(before[1][1])
           IN  /\ k % 2 = 1
               /\ r.error = NoError
               /\ r.ret.weight = PlusTap(before, (k + 1) \div 2, (k + 1) \div 2)

----------------------------------------------------------------------------
(* RepVGGDW.fuse() and BN_Linear.fuse() *)

\* beta - mu * s of channel c
ShiftOf(bn, c) == RSub(bn.bias[c], RMul(bn.running_mean[c], ScaleOf(bn, c)))

\* the normalisation bn maps every value to itself
IdentityNorm(bn) ==
    \A c \in 1..Len(bn.weight) :
        /\ ScaleOf(bn, c) = ROne
        /\ bn.bias[c] = RZero
        /\ bn.running_mean[c] = RZero

\* C2: the 3x3 depthwise convolution RepVGGDW.fuse() returns has, per
\* channel, the kernel (W_A * s_A + padded W_B + identity) * s_N and the bias
\* beta_N + (b_A + b_B - mu_N) * s_N, the trailing normalisation N folded
\* last; its output equals N(A(x) + B(x) + x) on every input; and with A and
\* B zero and N the identity it is the padded identity kernel with zero bias.
C2_RepVGGDWFuse ==
    (mod.kind = "RepVGGDW" /\ Fused) =>
        LET m == rets[Len(rets)].ret
            A == mod.conv
            B == mod.conv1
            N == mod.bn
        IN  /\ m.kind = "Conv2d" /\ m.kernel_size = 3 /\ m.groups = mod.dim
            /\ m.stride = 1 /\ m.padding = 1 /\ m.dilation = 1
            /\ Shape4(m.weight) = <<mod.dim, 1, 3, 3>>
            /\ \A o \in 1..mod.dim :
                /\ \A a \in 1..3 : \A b \in 1..3 :
                     m.weight[o][1][a][b] =
                        RMul(RAdd(RMul(A.c.weight[o][1][a][b], ScaleOf(A.bn, o)),
                                  IF a = 2 /\ b = 2
                                  THEN RAdd(B.weight[o][1][1][1], ROne) ELSE RZero),
                             ScaleOf(N, o))
                /\ m.bias[o] =
                     RAdd(N.bias[o],
                          RMul(RSub(RAdd(ShiftOf(A.bn, o), B.bias[o]), N.running_mean[o]),
                               ScaleOf(N, o)))
            /\ (x # None => (y # Raised /\ yf = y))
            /\ (/\ ZeroKernel(A.c.weight) /\ \A o \in 1..mod.dim : ShiftOf(A.bn, o) = RZero
                /\ ZeroKernel(B.weight) /\ \A o \in 1..mod.dim : B.bias[o] = RZero
                /\ IdentityNorm(N))
                  => (IdentityKernel3(m.weight) /\ \A o \in 1..mod.dim : m.bias[o] = RZero)

\* a fused two-channel RepVGGDW with non-zero A and B and a trailing
\* normalisation that scales and shifts, run on an impulse
C2_Witness ==
    /\ mod.kind = "RepVGGDW" /\ Fused
    /\ mod.dim = 2
    /\ ~ZeroKernel(mod.conv.c.weight) /\ ~ZeroKernel(mod.conv1.weight)
    /\ mod.conv1.bias[1] = ROne
    /\ ScaleOf(mod.conv.bn, 1) = Rat(-1, 2)
    /\ ScaleOf(mod.bn, 1) = ROne /\ mod.bn.running_mean[1] = RInt(3)
    /\ ScaleOf(mod.bn, 2) = RZero
    /\ x # None /\ NonZero3(x)
    /\ y # Raised /\ yf = y

\* C3: the Linear BN_Linear.fuse() returns has the weight W scaled per input
\* feature by s; with bias=None and with a bias vector alike its output
\* equals l(bn(x)) on every input; and for an all-zero bias vector its bias
\* is the one the bias=None branch computes.
C3_BNLinearFuse ==
    (mod.kind = "BN_Linear" /\ Fused) =>
        LET m == rets[Len(rets)].ret
            l == mod.l
        IN  /\ m.kind = "Linear"
            /\ m.in_features = l.in_features /\ m.out_features = l.out_features
            /\ \A o \in 1..l.out_features : \A i \in 1..l.in_features :
                  m.weight[o][i] = RMul(l.weight[o][i], ScaleOf(mod.bn, i))
            /\ Len(m.bias) = l.out_features
            /\ (x # None => (y # Raised /\ yf = y))
            /\ (l.bias # None /\ \A o \in 1..l.out_features : l.bias[o] = RZero)
                  => m.bias = BN_Linear_fuse([mod EXCEPT !.l.bias = None]).bias

\* a fused BN_Linear from 2 to 2 features with a trained bias vector and a
\* normalisation that scales and shifts, run on a unit vector
C3_Witness ==
    /\ mod.kind = "BN_Linear" /\ Fused
    /\ mod.l.in_features = 2 /\ mod.l.out_features = 2
    /\ mod.l.bias # None /\ mod.l.bias[2] = RInt(2)
    /\ mod.l.weight[1][1] # RZero
    /\ ScaleOf(mod.bn, 1) = Rat(-1, 2) /\ mod.bn.running_mean[1] = ROne
    /\ x # None /\ x[1] = ROne
    /\ y # Raised /\ yf = y

\* ---------------------------------------------------------------------------
\* _make_divisible (channel rounding)

MaxV == 24
MaxDivisor == 8
MaxMinValue == 10

\* the optional argument min_value: None when omitted, <<k>> when given as k
MinValues == {None} \cup {<<k>> : k \in 1..MaxMinValue}

\* _make_divisible(v, divisor, min_value) for a positive integer v.
\* int(v + divisor / 2) truncates v + divisor/2, which for integers is
\* v + divisor \div 2; new_v < 0.9 * v is 10 * new_v < 9 * v.
make_divisible(v, divisor, min_value) ==
    LET mv == IF min_value = None THEN divisor ELSE min_value[1]
        rounded == ((v + divisor \div 2) \div divisor) * divisor
        new_v == IF mv > rounded THEN mv ELSE rounded
    IN  IF 10 * new_v < 9 * v THEN new_v + divisor ELSE new_v

\* the arguments of one call, drawn before the call
InitDiv ==
    /\ mod = NoModule /\ orig = NoModule /\ rets = <<>>
    /\ x = None /\ y = None /\ yf = None /\ mode = "none" /\ net = <<>>
    /\ dv \in [v : 1..MaxV, divisor : 1..MaxDivisor, min_value : MinValues,
               called : {FALSE}, result : {0}]

Call_make_divisible ==
    /\ ~dv.called
    /\ dv' = [dv EXCEPT !.called = TRUE,
                        !.result = make_divisible(dv.v, dv.divisor, dv.min_value)]
    /\ UNCHANGED <<mod, orig, rets, x, y, yf, mode, net>>

NextDiv == Call_make_divisible

SpecDiv == InitDiv /\ [][NextDiv]_vars

\* C7: for every positive v and divisor and every min_value, omitted or any
\* positive integer, the result of _make_divisible is a multiple of divisor
\* and at least min_value (divisor when omitted).
C7_MakeDivisible ==
    dv.called =>
        /\ dv.result % dv.divisor = 0
        /\ dv.result >= (IF dv.min_value = None THEN dv.divisor ELSE dv.min_value[1])

\* ---------------------------------------------------------------------------
\* RepViTBlock / RepViT: assembly from a configuration table and the shapes
\* a forward pass produces.  Layers are described by their geometry only
\* (weights do not influence shapes); a shape is <<batch, channels, h, w>>
\* or <<batch, features>>, and Raised stands for a forward that raised.

MaxRows == 2
MaxBatch == 2

\* torch.nn.Conv2d(a, b, ks, stride, pad, groups=groups) without weights
ConvLayer(a, b, ks, stride, pad, groups) ==
    [op |-> "Conv2d", a |-> a, b |-> b, ks |-> ks, stride |-> stride,
     pad |-> pad, groups |-> groups]

\* BatchNorm2d(n), BatchNorm1d(n), PReLU(n): shape preserving, n channels
NormLayer(n) == [op |-> "Norm", n |-> n]

\* GELU, Identity, SqueezeExcite: shape preserving
SameLayer(name) == [op |-> "Same", name |-> name]

\* Conv2d_BN(a, b, ks, stride, pad, groups=groups) as a layer list
Conv2d_BN_layers(a, b, ks, stride, pad, groups) ==
    <<ConvLayer(a, b, ks, stride, pad, groups), NormLayer(b)>>

\* shape of Conv2d.forward
ConvShape(l, s) ==
    IF s = Raised \/ Len(s) # 4 THEN Raised
    ELSE IF s[2] # l.a \/ s[3] + 2 * l.pad < l.ks \/ s[4] + 2 * l.pad < l.ks
         THEN Raised
    ELSE <<s[1], l.b, ConvOutSize(s[3], l.ks, l.stride, l.pad, 1),
           ConvOutSize(s[4], l.ks, l.stride, l.pad, 1)>>

\* shape of a normalisation / PReLU forward: the channel axis must have n
NormShape(l, s) ==
    IF s = Raised \/ Len(s) < 2 THEN Raised
    ELSE IF s[2] # l.n THEN Raised ELSE s

\* shape of a + b under broadcasting
BroadcastShape(a, b) ==
    IF a = Raised \/ b = Raised \/ Len(a) # Len(b) THEN Raised
    ELSE IF \E i \in 1..Len(a) : a[i] # b[i] /\ a[i] # 1 /\ b[i] # 1 THEN Raised
    ELSE [i \in 1..Len(a) |-> IF a[i] = 1 THEN b[i] ELSE a[i]]

\* Flatten.forward : x.view(x.size(0), -1)
FlattenShape(s) ==
    IF s = Raised \/ Len(s) # 4 THEN Raised ELSE <<s[1], s[2] * s[3] * s[4]>>

\* shape of Linear(a, b).forward
LinearShape(l, s) ==
    IF s = Raised \/ Len(s) # 2 THEN Raised
    ELSE IF s[2] # l.a THEN Raised ELSE <<s[1], l.b>>

\* shape of RepVGGDW(ed).forward : bn((conv(x) + conv1(x)) + x)
RepVGGDWShape(l, s) ==
    LET conv == NormShape(NormLayer(l.ed),
                          ConvShape(ConvLayer(l.ed, l.ed, 3, 1, 1, l.ed), s))
        conv1 == ConvShape(ConvLayer(l.ed, l.ed, 1, 1, 0, l.ed), s)
    IN  NormShape(NormLayer(l.ed), BroadcastShape(BroadcastShape(conv, conv1), s))

\* shape of one layer's forward
RECURSIVE SequentialShapes(_, _)
RECURSIVE SequentialShape(_, _)
LayerShape(l, s) ==
    CASE l.op = "Conv2d" -> ConvShape(l, s)
      [] l.op = "Norm" -> NormShape(l, s)
      [] l.op = "Same" -> s
      [] l.op = "RepVGGDW" -> RepVGGDWShape(l, s)
      [] l.op = "LinearBlock" -> SequentialShape(l.layers, s)
      [] l.op = "Flatten" -> FlattenShape(s)
      [] l.op = "Linear" -> LinearShape(l, s)

\* shapes after each layer of a Sequential, on input shape s
SequentialShapes(layers, s) ==
    IF layers = <<>> THEN <<>>
    ELSE LET t == LayerShape(layers[1], s)
         IN  <<t>> \o SequentialShapes(Tail(layers), t)

\* shape of Sequential.forward
SequentialShape(layers, s) ==
    IF layers = <<>> THEN s ELSE SequentialShapes(layers, s)[Len(layers)]

\* TokenMixerPad with the padding left out
TokenMixerPad_Zero(kernel_size) == 0

\* padding of the stride-2 depthwise convolution of a token mixer
TokenMixerPad(kernel_size) == (kernel_size - 1) \div 2

\* RepViTBlock(inp, hidden_dim, oup, kernel_size, stride, use_se, use_hs):
\* the block, or [kind |-> AssertionError] when the constructor asserts
RepViTBlock(inp, hidden_dim, oup, kernel_size, stride, use_se, use_hs) ==
    IF stride \notin {1, 2} THEN [kind |-> AssertionError]
    ELSE LET identity == stride = 1 /\ inp = oup
             se == IF use_se # 0 THEN SameLayer("SqueezeExcite")
                   ELSE SameLayer("Identity")
         IN  IF stride = 2
             THEN [kind |-> "RepViTBlock", identity |-> identity,
                   token_mixer |->
                       Conv2d_BN_layers(inp, inp, kernel_size, stride,
                                        TokenMixerPad(kernel_size), inp)
                       \o <<se>> \o Conv2d_BN_layers(inp, oup, 1, 1, 0, 1),
                   channel_mixer |->
                       Conv2d_BN_layers(oup, 2 * oup, 1, 1, 0, 1)
                       \o <<SameLayer("GELU")>>
                       \o Conv2d_BN_layers(2 * oup, oup, 1, 1, 0, 1)]
             ELSE IF ~identity THEN [kind |-> AssertionError]
             ELSE [kind |-> "RepViTBlock", identity |-> identity,
                   token_mixer |-> <<[op |-> "RepVGGDW", ed |-> inp], se>>,
                   channel_mixer |->
                       Conv2d_BN_layers(inp, hidden_dim, 1, 1, 0, 1)
                       \o <<SameLayer("GELU")>>
                       \o Conv2d_BN_layers(hidden_dim, oup, 1, 1, 0, 1)]

\* RepViTBlock.forward : channel_mixer(token_mixer(x)), the channel mixer
\* being Residual(Sequential(...)) in evaluation mode, x + m(x)
RepViTBlock_forward(self, s) ==
    LET t == SequentialShape(self.token_mixer, s)
    IN  BroadcastShape(t, SequentialShape(self.channel_mixer, t))

\* LinearBlock(in_c, out_c, kernel, stride, padding, groups)
LinearBlock(in_c, out_c, kernel, stride, padding, groups) ==
    [op |-> "LinearBlock",
     layers |-> <<ConvLayer(in_c, out_c, kernel, stride, padding, groups),
                  NormLayer(out_c)>>]

\* GDC(embedding_size, input_size)
GDC(embedding_size, input_size) ==
    [kind |-> "GDC",
     layers |-> <<LinearBlock(input_size, input_size, 7, 1, 0, input_size),
                  [op |-> "Flatten"],
                  [op |-> "Linear", a |-> input_size, b |-> embedding_size],
                  NormLayer(embedding_size)>>]

\* ConvBlock(in_c, out_c, kernel, stride, padding, groups): Conv2d,
\* BatchNorm2d(out_c), PReLU(out_c)
ConvBlock(in_c, out_c, kernel, stride, padding, groups) ==
    [kind |-> "ConvBlock",
     layers |-> <<ConvLayer(in_c, out_c, kernel, stride, padding, groups),
                  NormLayer(out_c), NormLayer(out_c)>>]

\* the loop of RepViT.__init__ from row i on, entered with input_channel:
\* the blocks appended, the last entry being [kind |-> AssertionError] when
\* a block's constructor asserted (the loop ends there)
RECURSIVE RepViT_blocks(_, _, _)
RepViT_blocks(cfgs, i, input_channel) ==
    IF i > Len(cfgs) THEN <<>>
    ELSE LET k == cfgs[i][1]
             t == cfgs[i][2]
             c == cfgs[i][3]
             use_se == cfgs[i][4]
             use_hs == cfgs[i][5]
             s == cfgs[i][6]
             output_channel == make_divisible(c, 8, None)
             exp_size == make_divisible(input_channel * t, 8, None)
             b == RepViTBlock(input_channel, exp_size, output_channel,
                              k, s, use_se, use_hs)
         IN  IF b.kind = AssertionError THEN <<b>>
             ELSE <<b>> \o RepViT_blocks(cfgs, i + 1, output_channel)

\* RepViT(cfgs) for a non-empty table: the module, or a record of kind
\* AssertionError holding what had been appended to layers when a block's
\* constructor asserted
RepViT(cfgs) ==
    LET input_channel == cfgs[1][3]
        patch_embed == [kind |-> "Sequential",
                        layers |-> Conv2d_BN_layers(3, input_channel, 2, 2, 0, 1)
                                   \o <<SameLayer("GELU")>>]
        blocks == RepViT_blocks(cfgs, 1, input_channel)
        \* input_channel after the loop: the last row's output_channel
        last_channel == make_divisible(cfgs[Len(cfgs)][3], 8, None)
    IN  IF blocks[Len(blocks)].kind = AssertionError
        THEN [kind |-> AssertionError, cfgs |-> cfgs,
              features |-> <<patch_embed>> \o SubSeq(blocks, 1, Len(blocks) - 1)]
        ELSE [kind |-> "RepViT", cfgs |-> cfgs,
              features |-> <<patch_embed>> \o blocks,
              conv_sep |-> ConvBlock(last_channel, 512, 1, 1, 0, 1),
              gdc |-> GDC(512, 512)]

\* shapes after each module of self.features
RECURSIVE FeatureShapes(_, _)
FeatureShapes(features, s) ==
    IF features = <<>> THEN <<>>
    ELSE LET f == features[1]
             t == IF f.kind = "Sequential" THEN SequentialShape(f.layers, s)
                  ELSE RepViTBlock_forward(f, s)
         IN  <<t>> \o FeatureShapes(Tail(features), t)

\* RepViT.forward on an input of shape s: the shapes after each feature
\* module, after conv_sep, after each layer of gdc, and of the result
RepViT_forward(self, s) ==
    LET fs == FeatureShapes(self.features, s)
        cs == SequentialShape(self.conv_sep.layers, fs[Len(fs)])
        gs == SequentialShapes(self.gdc.layers, cs)
    IN  [features |-> fs, conv_sep |-> cs, gdc |-> gs, out |-> gs[Len(gs)]]

\* the table of repvit_m0_9, rows (k, t, c, SE, HS, s)
ReferenceCfgs ==
    << <<3, 2, 48, 0, 0, 1>>, <<3, 2, 48, 0, 0, 1>>, <<3, 2, 96, 0, 0, 2>>,
       <<3, 2, 192, 0, 0, 2>>, <<3, 2, 192, 0, 0, 1>>, <<3, 2, 192, 0, 0, 1>>,
       <<3, 2, 192, 0, 0, 1>>, <<3, 2, 192, 0, 0, 1>>, <<3, 2, 192, 0, 0, 1>>,
       <<3, 2, 192, 0, 0, 2>> >>

\* repvit_m0_9()
repvit_m0_9 == RepViT(ReferenceCfgs)

\* rows of the drawn tables: widths that rounding to 8 keeps (8, 16) and
\* one it changes (12); strides the block accepts (1, 2) and one it rejects
Rows == {<<3, 2, c, se, 0, s>> : c \in {8, 12, 16}, se \in {0, 1}, s \in {1, 2, 3}}

RECURSIVE TablesOfLen(_)
TablesOfLen(n) ==
    IF n = 0 THEN {<<>>}
    ELSE {<<r>> \o t : r \in Rows, t \in TablesOfLen(n - 1)}

Tables == UNION {TablesOfLen(n) : n \in 1..MaxRows}

\* input shapes [batch, channels, size, size]
InputShapes ==
    {<<b, c, n, n>> : b \in 1..MaxBatch, c \in {1, 3}, n \in {14, 28, 56, 112}}

InitNet ==
    /\ mod = NoModule /\ orig = NoModule /\ rets = <<>>
    /\ x = None /\ y = None /\ yf = None /\ mode = "none" /\ dv = <<>>
    /\ net = [model |-> NoModule, input |-> None, fwd |-> None]

Call_repvit_m0_9 ==
    /\ net.model = NoModule
    /\ net' = [net EXCEPT !.model = repvit_m0_9]
    /\ UNCHANGED <<mod, orig, rets, x, y, yf, mode, dv>>

CallRepViT ==
    /\ net.model = NoModule
    /\ \E cfgs \in Tables : net' = [net EXCEPT !.model = RepViT(cfgs)]
    /\ UNCHANGED <<mod, orig, rets, x, y, yf, mode, dv>>

CallRepViT_forward ==
    /\ net.model.kind = "RepViT"
    /\ net.input = None
    /\ \E s \in InputShapes :
          net' = [net EXCEPT !.input = s, !.fwd = RepViT_forward(net.model, s)]
    /\ UNCHANGED <<mod, orig, rets, x, y, yf, mode, dv>>

NextNet == Call_repvit_m0_9 \/ CallRepViT \/ CallRepViT_forward

SpecNet == InitNet /\ [][NextNet]_vars

\* C8: the reference network on [batch, 3, 112, 112]: the stem and every
\* stride-2 stage halve the spatial size, every stride-1 stage keeps the
\* spatial size and the channel width, the head receives 7x7, its 7x7
\* grouped convolution leaves 1x1 with 512 channels, and the embedding
\* returned is [batch, 512].
C8_ReferenceShapes ==
    (/\ net.model.kind = "RepViT" /\ net.model.cfgs = ReferenceCfgs
     /\ net.input # None /\ net.input[2] = 3 /\ net.input[3] = 112) =>
        LET fs == net.fwd.features
            b == net.input[1]
            n == Len(ReferenceCfgs)
        IN  /\ Len(fs) = n + 1
            /\ \A i \in 1..(n + 1) : fs[i] # Raised
            /\ fs[1][1] = b /\ 2 * fs[1][3] = 112 /\ 2 * fs[1][4] = 112
            /\ \A i \in 1..n :
                  IF ReferenceCfgs[i][6] = 2
                  THEN /\ fs[i + 1][1] = b
                       /\ 2 * fs[i + 1][3] = fs[i][3]
                       /\ 2 * fs[i + 1][4] = fs[i][4]
                  ELSE fs[i + 1] = fs[i]
            /\ fs[n + 1][3] = 7 /\ fs[n + 1][4] = 7
            /\ net.fwd.conv_sep = <<b, 512, 7, 7>>
            /\ net.fwd.gdc[1] = <<b, 512, 1, 1>>
            /\ net.fwd.out = <<b, 512>>

\* the reference network after a forward pass on a batch of two 112x112
\* images that returned an embedding
C8_Witness ==
    /\ net.model.kind = "RepViT" /\ net.model.cfgs = ReferenceCfgs
    /\ net.input = <<2, 3, 112, 112>>
    /\ net.fwd.features[4] = <<2, 96, 28, 28>>
    /\ net.fwd.out = <<2, 512>>

\* a table is well formed: every stride is 1 or 2, and a stride-1 row has
\* the output_channels of the row before it (the first row: its own)
WellFormed(cfgs) ==
    \A i \in 1..Len(cfgs) :
        /\ cfgs[i][6] \in {1, 2}
        /\ cfgs[i][6] = 1 => cfgs[i][3] = cfgs[IF i = 1 THEN 1 ELSE i - 1][3]

\* input width of a block: in_channels of its first convolution
BlockIn(b) == IF b.token_mixer[1].op = "RepVGGDW" THEN b.token_mixer[1].ed
              ELSE b.token_mixer[1].a

\* output width of a block or of the stem: out_channels of its last convolution
WidthOut(f) ==
    IF f.kind = "Sequential" THEN f.layers[1].b
    ELSE f.channel_mixer[Len(f.channel_mixer) - 1].b

\* C10: constructing RepViT from a well-formed table builds one block per
\* row without an assertion failure, each block's input width being the
\* output width of the block (or stem) before it.
C10_AssemblyNeverAsserts ==
    (net.model # NoModule /\ WellFormed(net.model.cfgs)) =>
        /\ net.model.kind = "RepViT"
        /\ Len(net.model.features) = Len(net.model.cfgs) + 1
        /\ \A i \in 2..Len(net.model.features) :
              BlockIn(net.model.features[i]) = WidthOut(net.model.features[i - 1])

=============================================================================
